---- MODULE Spec2Model ----
(***************************************************************************)
(* A model of the CoreMap page of the earthquake visualizer               *)
(* (src/src/pages/CoreMap.jsx): the component state, the events fetch, the *)
(* boundaries fetch, the geocoder search, the client-side filter, the      *)
(* report statistics, the map layer, and the timers of the view.           *)
(*                                                                         *)
(* Units: magnitudes are integers in tenths (6.0 is 60), depths are whole  *)
(* kilometres, avgMag is in hundredths (the two decimals of toFixed(2)).   *)
(* A JavaScript value that can be null or undefined is a tagged record;    *)
(* a string is a sequence of one-character strings.                        *)
(***************************************************************************)
EXTENDS Integers, Sequences, FiniteSets, TLC

VARIABLES
    earthquakes,      \* useState([])          : Arr(<<event, ...>>) or Undefined
    minMagnitude,     \* useState(0)           : tenths
    maxMagnitude,     \* useState(10)          : tenths
    minDepth,         \* useState(0)
    maxDepth,         \* useState(700)
    timeRange,        \* useState("all_day")
    searchLocation,   \* useState("")          : string
    locationCoords,   \* useState(null)        : Null or Coords(lat, lon)
    placeFilter,      \* useState("")          : string
    showExplanation,  \* useState(false)
    eqInFlight,       \* events requests awaiting their response
    geoInFlight,      \* geocoder requests awaiting their response
    eqIssued,         \* number of events requests issued so far
    geoIssued,        \* number of geocoder requests issued so far
    alerts,           \* number of alert() notices raised so far
    crashed,          \* a render threw: the page is gone
    loadedWindow,     \* the window of the request whose response was applied last
    geoLast,          \* the response of the geocoder lookup that completed last
    plates,           \* useState(null)        : Null or Obj(<<feature, ...>>)
    platesInFlight,   \* the boundaries request awaits its response
    platesIssued,     \* number of boundaries requests issued so far
    mounted,          \* the route still renders CoreMap
    mapReady,         \* useState(false)
    mapReadyTimer,    \* the setTimeout of 50 ms: "pending", "fired" or "cleared"
    resizeTimers,     \* pending setTimeouts of 100 ms: of the map on screen
                      \* (live) and of maps already removed (orphans)
    panelStats,       \* the stats the ExplanationPanel on screen holds, if any
    panelUpdated      \* a collection arrived while the panel has been on screen

vars == <<earthquakes, minMagnitude, maxMagnitude, minDepth, maxDepth, timeRange,
          searchLocation, locationCoords, placeFilter, showExplanation,
          eqInFlight, geoInFlight, eqIssued, geoIssued, alerts, crashed,
          loadedWindow, geoLast, plates, platesInFlight, platesIssued,
          mounted, mapReady, mapReadyTimer, resizeTimers, panelStats, panelUpdated>>

plateVars == <<plates, platesInFlight, platesIssued>>
viewVars == <<mounted, mapReady, mapReadyTimer, resizeTimers>>

-----------------------------------------------------------------------------
(* Bounds *)

MaxEvents == 2
MaxFetches == 2
MaxSearches == 2
MaxTimers == 2

-----------------------------------------------------------------------------
(* JavaScript values *)

Null == [t |-> "null"]
Undefined == [t |-> "undefined"]
Num(n) == [t |-> "number", v |-> n]
Str(s) == [t |-> "string", s |-> s]
Arr(items) == [t |-> "array", items |-> items]
NaN == [t |-> "NaN"]
PosInfinity == [t |-> "Infinity"]
NegInfinity == [t |-> "-Infinity"]

\* ToNumber, as the relational and arithmetic operators apply it: null is 0.
ToNumber(v) == IF v.t = "number" THEN v.v ELSE 0

\* ToBoolean
Truthy(v) ==
    CASE v.t = "string" -> Len(v.s) > 0
      [] v.t = "number" -> v.v # 0
      [] v.t \in {"array", "object"} -> TRUE
      [] OTHER -> FALSE

UpperChars == <<"A","B","C","D","E","F","G","H","I","J","K","L","M",
                "N","O","P","Q","R","S","T","U","V","W","X","Y","Z">>
LowerChars == <<"a","b","c","d","e","f","g","h","i","j","k","l","m",
                "n","o","p","q","r","s","t","u","v","w","x","y","z">>
DigitChars == <<"0","1","2","3","4","5","6","7","8","9">>

ToLowerChar(c) ==
    IF \E i \in DOMAIN UpperChars : UpperChars[i] = c
    THEN LowerChars[CHOOSE i \in DOMAIN UpperChars : UpperChars[i] = c]
    ELSE c

\* String.prototype.toLowerCase
ToLowerCase(s) == [i \in DOMAIN s |-> ToLowerChar(s[i])]

\* String.prototype.includes: the first position where k matches, if any
IncludesFrom(s, k, i) ==
    \E j \in i..(Len(s) - Len(k) + 1) : \A n \in 1..Len(k) : s[j + n - 1] = k[n]

Includes(s, k) == IncludesFrom(s, k, 1)

-----------------------------------------------------------------------------
(* The feed's events *)

Event(mag, depth, place) == [mag |-> mag, depth |-> depth, place |-> place]

EventPool ==
    { Event(Num(20), 10, Str(<<"X">>)),
      Event(Num(60), 50, Str(<<"Y">>)),
      Event(Num(40), 600, Str(<<"X">>)),
      Event(Null, 0, Null),
      Event(Num(-5), 10, Str(<<"x","Y">>)),
      Event(Num(50), 800, Str(<<"Y">>)),
      Event(Num(30), -1, Str(<<"X">>)),
      Event(Num(30), 700, Str(<<"7">>)),
      Event(Num(50), 0, Str(<<>>)) }

RECURSIVE SeqsUpTo(_, _)
SeqsUpTo(S, n) ==
    IF n = 0 THEN {<<>>}
    ELSE LET shorter == SeqsUpTo(S, n - 1)
         IN shorter \cup {Append(q, e) : q \in shorter, e \in S}

Collections == SeqsUpTo(EventPool, MaxEvents)

\* Positions of the range sliders (tenths for magnitude, km for depth) and the
\* keywords typed in the place filter.
MagStops == {0, 50, 100}
DepthStops == {0, 50, 700}
Keywords == {<<>>, <<"y">>, <<"X">>}

-----------------------------------------------------------------------------
(* The filter: filteredEarthquakes *)

\* KeepEvent with the upper depth bound exclusive: depth < maxDepth
KeepEventDepthBelowMax(eq) ==
    LET place == IF Truthy(eq.place) THEN eq.place.s ELSE <<>>
        placeMatch == IF Len(placeFilter) > 0
                      THEN Includes(ToLowerCase(place), ToLowerCase(placeFilter))
                      ELSE TRUE
    IN /\ ToNumber(eq.mag) >= minMagnitude
       /\ ToNumber(eq.mag) <= maxMagnitude
       /\ eq.depth >= minDepth
       /\ eq.depth < maxDepth
       /\ placeMatch

KeepEvent(eq) ==
    LET mag == eq.mag
        depth == eq.depth
        place == IF Truthy(eq.place) THEN eq.place.s ELSE <<>>
        placeMatch == IF Len(placeFilter) > 0
                      THEN Includes(ToLowerCase(place), ToLowerCase(placeFilter))
                      ELSE TRUE
    IN /\ ToNumber(mag) >= minMagnitude
       /\ ToNumber(mag) <= maxMagnitude
       /\ depth >= minDepth
       /\ depth <= maxDepth
       /\ placeMatch

\* Array.prototype.filter: visit the elements in order, keep those that pass
RECURSIVE ArrayFilter(_, _)
ArrayFilter(items, i) ==
    IF i > Len(items) THEN <<>>
    ELSE IF KeepEvent(items[i])
         THEN <<items[i]>> \o ArrayFilter(items, i + 1)
         ELSE ArrayFilter(items, i + 1)

filteredEarthquakes == ArrayFilter(earthquakes.items, 1)

-----------------------------------------------------------------------------
(* The report statistics: the useMemo of ExplanationPanel *)

RECURSIVE CountIf(_, _, _)
\* magnitudes.filter(test).length, test being one of the three band tests
CountIf(ms, band, i) ==
    IF i > Len(ms) THEN 0
    ELSE (IF band = "high" /\ ToNumber(ms[i]) >= 50 THEN 1
          ELSE IF band = "med" /\ ToNumber(ms[i]) >= 30 /\ ToNumber(ms[i]) < 50 THEN 1
          ELSE IF band = "low" /\ ToNumber(ms[i]) < 30 THEN 1
          ELSE 0) + CountIf(ms, band, i + 1)

\* medMagCountOf with the lower bound exclusive: m > 3 && m < 5
medMagCountAbove3(ms) ==
    Cardinality({i \in DOMAIN ms : ToNumber(ms[i]) > 30 /\ ToNumber(ms[i]) < 50})

highMagCountOf(ms) == CountIf(ms, "high", 1)
medMagCountOf(ms) == CountIf(ms, "med", 1)
lowMagCountOf(ms) == CountIf(ms, "low", 1)

RECURSIVE SumFrom(_, _)
\* magnitudes.reduce((a, b) => a + b, 0): a null adds 0
SumFrom(ms, i) == IF i > Len(ms) THEN 0 ELSE ToNumber(ms[i]) + SumFrom(ms, i + 1)

\* (sum / total).toFixed(2), in hundredths: the nearest hundredth, the larger
\* of two equally near ones; sum is in tenths. 0 / 0 is NaN.
ToFixed2(sum, total) ==
    IF total = 0 THEN NaN
    ELSE LET a == IF sum < 0 THEN 0 - sum ELSE sum
             n == (20 * a + total) \div (2 * total)
         IN Num(IF sum < 0 THEN 0 - n ELSE n)

\* Math.max(...xs) and Math.min(...xs), after ToNumber; of no arguments they
\* are -Infinity and Infinity
MathMax(xs) ==
    IF xs = <<>> THEN NegInfinity
    ELSE Num(CHOOSE m \in {ToNumber(xs[i]) : i \in DOMAIN xs} :
                 \A i \in DOMAIN xs : ToNumber(xs[i]) <= m)
MathMin(xs) ==
    IF xs = <<>> THEN PosInfinity
    ELSE Num(CHOOSE m \in {ToNumber(xs[i]) : i \in DOMAIN xs} :
                 \A i \in DOMAIN xs : ToNumber(xs[i]) >= m)

UnknownPlace == <<"U","n","k","n","o","w","n">>

\* e.properties.place || "Unknown"
PlaceKey(e) == IF Truthy(e.place) THEN e.place.s ELSE UnknownPlace

\* locationCounts[place] = (locationCounts[place] || 0) + 1, the object being
\* the list of its properties in creation order
Increment(obj, key) ==
    IF \E i \in DOMAIN obj : obj[i].key = key
    THEN [i \in DOMAIN obj |->
             IF obj[i].key = key THEN [obj[i] EXCEPT !.count = @ + 1] ELSE obj[i]]
    ELSE Append(obj, [key |-> key, count |-> 1])

RECURSIVE CountPlaces(_, _, _)
\* filteredEarthquakes.forEach(...)
CountPlaces(es, i, obj) ==
    IF i > Len(es) THEN obj
    ELSE CountPlaces(es, i + 1, Increment(obj, PlaceKey(es[i])))

IsDigit(c) == \E i \in DOMAIN DigitChars : DigitChars[i] = c
DigitValue(c) == (CHOOSE i \in DOMAIN DigitChars : DigitChars[i] = c) - 1

\* digit strings of equal length, compared as numbers
RECURSIVE DigitsLess(_, _, _)
DigitsLess(a, b, i) ==
    IF i > Len(a) THEN FALSE
    ELSE IF DigitValue(a[i]) # DigitValue(b[i]) THEN DigitValue(a[i]) < DigitValue(b[i])
    ELSE DigitsLess(a, b, i + 1)

IndexLess(a, b) == Len(a) < Len(b) \/ (Len(a) = Len(b) /\ DigitsLess(a, b, 1))

MaxArrayIndex == <<"4","2","9","4","9","6","7","2","9","4">>

\* A property name that is an array index: a canonical decimal below 2^32 - 1.
\* An object lists these first, in ascending numeric order.
IsArrayIndex(key) ==
    /\ Len(key) >= 1
    /\ \A i \in DOMAIN key : IsDigit(key[i])
    /\ (Len(key) = 1 \/ key[1] # "0")
    /\ ~IndexLess(MaxArrayIndex, key)

RECURSIVE InsertIndexKey(_, _)
InsertIndexKey(sorted, e) ==
    IF sorted = <<>> THEN <<e>>
    ELSE IF IndexLess(e.key, Head(sorted).key) THEN <<e>> \o sorted
    ELSE <<Head(sorted)>> \o InsertIndexKey(Tail(sorted), e)

RECURSIVE SortIndexKeys(_, _)
SortIndexKeys(es, acc) ==
    IF es = <<>> THEN acc ELSE SortIndexKeys(Tail(es), InsertIndexKey(acc, Head(es)))

IsIndexEntry(e) == IsArrayIndex(e.key)
IsNameEntry(e) == ~IsArrayIndex(e.key)

\* Object.entries(obj): the array-index keys in ascending order, then the other
\* keys in creation order
ObjectEntries(obj) ==
    SortIndexKeys(SelectSeq(obj, IsIndexEntry), <<>>) \o SelectSeq(obj, IsNameEntry)

RECURSIVE InsertByCount(_, _)
\* the place of e in a list already sorted by (a, b) => b[1] - a[1]: behind
\* every entry whose count is not smaller (the sort is stable)
InsertByCount(sorted, e) ==
    IF sorted = <<>> THEN <<e>>
    ELSE IF Head(sorted).count - e.count < 0 THEN <<e>> \o sorted
    ELSE <<Head(sorted)>> \o InsertByCount(Tail(sorted), e)

RECURSIVE SortByCount(_, _)
\* entries.sort((a, b) => b[1] - a[1])
SortByCount(es, acc) ==
    IF es = <<>> THEN acc ELSE SortByCount(Tail(es), InsertByCount(acc, Head(es)))

TopN == 5

\* .slice(0, 5)
SliceTop(es) == SubSeq(es, 1, IF Len(es) < TopN THEN Len(es) ELSE TopN)

RECURSIVE Decimal(_)
\* a count written in decimal
Decimal(n) ==
    IF n < 10 THEN <<DigitChars[n + 1]>>
    ELSE Decimal(n \div 10) \o <<DigitChars[(n % 10) + 1]>>

\* `${place} (${count})`
Label(e) == e.key \o <<" ", "(">> \o Decimal(e.count) \o <<")">>

\* the entries behind topLocations: sorted and cut, not yet written as labels
TopEntries(es) == SliceTop(SortByCount(ObjectEntries(CountPlaces(es, 1, <<>>)), <<>>))

topLocationsOf(es) == LET top == TopEntries(es) IN [i \in DOMAIN top |-> Label(top[i])]

Magnitudes(es) == [i \in DOMAIN es |-> es[i].mag]
Depths(es) == [i \in DOMAIN es |-> Num(es[i].depth)]

\* getRandomBoundaryType draws one of these
BoundaryTypes == {"Convergent", "Divergent", "Transform"}

\* a feature of the boundaries collection, with the kind the page gave it
Feature(id, type) == [id |-> id, boundaryType |-> type]

RECURSIVE CountTypes(_, _, _)
\* plates.features.forEach(f => plateCounts[type] = (plateCounts[type] || 0) + 1)
CountTypes(fs, i, obj) ==
    IF i > Len(fs) THEN obj
    ELSE CountTypes(fs, i + 1, Increment(obj, fs[i].boundaryType))

\* PlateCountsOf for a collection whose last segment is left out of the loop
PlateCountsSkippingLast(pl) ==
    IF Truthy(pl) THEN CountTypes(SubSeq(pl.features, 1, Len(pl.features) - 1), 1, <<>>)
    ELSE <<>>

\* const plateCounts = {}; if (plates) plates.features.forEach(...)
PlateCountsOf(pl) == IF Truthy(pl) THEN CountTypes(pl.features, 1, <<>>) ELSE <<>>

\* the object the useMemo builds
ReportOf(es) ==
    LET total == Len(es)
        magnitudes == Magnitudes(es)
        depths == Depths(es)
    IN [t |-> "object",
        total |-> total,
        highMagCount |-> highMagCountOf(magnitudes),
        medMagCount |-> medMagCountOf(magnitudes),
        lowMagCount |-> lowMagCountOf(magnitudes),
        avgMag |-> ToFixed2(SumFrom(magnitudes, 1), total),
        maxMag |-> MathMax(magnitudes),
        minMag |-> MathMin(magnitudes),
        maxDepth |-> MathMax(depths),
        minDepth |-> MathMin(depths),
        topLocations |-> topLocationsOf(es),
        plateCounts |-> PlateCountsOf(plates)]

\* StatsOf without the early return for an empty filtered set
StatsOfAlwaysReport(es) == ReportOf(es)

\* the value of the useMemo: null for an empty filtered set, else the report
StatsOf(es) == IF Len(es) = 0 THEN Null ELSE ReportOf(es)

stats == StatsOf(filteredEarthquakes)

\* what ExplanationPanel renders
ReportView == IF ~Truthy(stats) THEN "No earthquakes match the current filters." ELSE "report"

\* no ExplanationPanel on screen, so no useMemo value
NoPanel == [t |-> "none"]

\* {plates && <ul>{Object.entries(stats.plateCounts).map(...)}</ul>}: the list
\* under the heading "Tectonic Plate Activity"; the kinds are no array indices,
\* so the entries come in creation order
TallyList(st) == IF Truthy(plates) THEN [shown |-> TRUE, entries |-> st.plateCounts]
                 ELSE [shown |-> FALSE, entries |-> <<>>]

-----------------------------------------------------------------------------
(* The network *)

TimeRanges == {"all_hour", "all_day", "all_week", "all_month"}

Obj(features) == [t |-> "object", features |-> features]

\* The collections a feed answers with in the page's runs: none, one event
\* the initial criteria keep, and one they drop before one they keep
FeedBodies ==
    { <<>>,
      <<Event(Num(20), 10, Str(<<"X">>))>>,
      <<Event(Num(50), 800, Str(<<"Y">>)), Event(Num(60), 50, Str(<<"Y">>))>> }

\* What an events request can end with: fetch rejects; the body is not JSON
\* (res.json() rejects); or the body is JSON, under any HTTP status: null, an
\* object without features, or a feature collection.
EqResponses ==
    {[kind |-> "rejected"], [kind |-> "notJson"]}
    \cup {[kind |-> "json", ok |-> ok, data |-> d] :
            ok \in BOOLEAN,
            d \in {Null, Obj(Undefined)} \cup {Obj(Arr(c)) : c \in FeedBodies}}

Candidate(lat, lon) == [lat |-> lat, lon |-> lon]

\* What a geocoder request can end with: as above, the JSON body being null or
\* an array of candidates
GeoResponses ==
    {[kind |-> "rejected"], [kind |-> "notJson"]}
    \cup {[kind |-> "json", data |-> d] :
            d \in {Null, Arr(<<>>), Arr(<<Candidate(<<"3","5">>, <<"-","7">>)>>),
                   Arr(<<Candidate(<<"-","7">>, <<"3","5">>), Candidate(<<"3","5">>, <<"-","7">>)>>)}}

RECURSIVE ParseDigits(_, _)
ParseDigits(s, acc) ==
    IF s = <<>> \/ ~IsDigit(Head(s)) THEN acc
    ELSE ParseDigits(Tail(s), 10 * acc + DigitValue(Head(s)))

\* parseFloat of a decimal integer: an optional sign, then digits
ParseFloat(s) ==
    IF s # <<>> /\ Head(s) = "-" THEN 0 - ParseDigits(Tail(s), 0) ELSE ParseDigits(s, 0)

Queries == {<<>>, <<" ">>, <<"X">>}

-----------------------------------------------------------------------------
(* The page *)

\* The component function runs to its end: earthquakes.filter exists
Renders(eqs) == eqs.t = "array"

\* The state after the first render and its effects: the events fetch of the
\* initial timeRange is in flight
Init ==
    /\ earthquakes = Arr(<<>>)
    /\ minMagnitude = 0
    /\ maxMagnitude = 100
    /\ minDepth = 0
    /\ maxDepth = 700
    /\ timeRange = "all_day"
    /\ searchLocation = <<>>
    /\ locationCoords = Null
    /\ placeFilter = <<>>
    /\ showExplanation = FALSE
    /\ eqInFlight = {[id |-> 1, window |-> "all_day"]}
    /\ geoInFlight = {}
    /\ eqIssued = 1
    /\ geoIssued = 0
    /\ alerts = 0
    /\ crashed = FALSE
    /\ loadedWindow = "none"
    /\ geoLast = [kind |-> "none"]
    /\ plates = Null
    /\ platesInFlight = TRUE
    /\ platesIssued = 1
    /\ mounted = TRUE
    /\ mapReady = FALSE
    /\ mapReadyTimer = "pending"
    /\ resizeTimers = [live |-> FALSE, orphans |-> 0]
    /\ panelStats = NoPanel
    /\ panelUpdated = FALSE

\* The control panel is on screen
Controls == mounted /\ ~crashed /\ ~showExplanation

\* <MapContainer> with its <ResponsiveMap> is on screen
MapShown == mounted /\ ~crashed /\ ~showExplanation /\ mapReady

\* <ExplanationPanel /> is on screen
PanelShown == mounted /\ ~crashed /\ showExplanation

getColor(mag) ==
    IF ToNumber(mag) < 30 THEN "green"
    ELSE IF ToNumber(mag) < 50 THEN "orange"
    ELSE "red"

\* <Circle> of one event; the radius is Math.max(mag * 20000, 10000), mag in tenths
CircleOf(eq) ==
    [kind |-> "Circle",
     radius |-> IF ToNumber(eq.mag) * 2000 > 10000 THEN ToNumber(eq.mag) * 2000 ELSE 10000,
     color |-> getColor(eq.mag),
     pulsing |-> ToNumber(eq.mag) >= 50]

\* The children of <ResponsiveMap>: the boundaries once loaded, then one
\* circle per event of the filtered set
MapChildren ==
    (IF Truthy(plates) THEN <<[kind |-> "GeoJSON"]>> ELSE <<>>)
        \o [i \in DOMAIN filteredEarthquakes |-> CircleOf(filteredEarthquakes[i])]

\* The effect of ResponsiveMap over a step: a map that comes on screen starts a
\* setTimeout of 100 ms; a map that leaves removes its resize listener and
\* nothing else, so its timer stays pending
ResponsiveMapEffect ==
    resizeTimers' =
        IF ~MapShown /\ MapShown'
        THEN [resizeTimers EXCEPT !.live = TRUE]
        ELSE IF MapShown /\ ~MapShown'
        THEN [live |-> FALSE,
              orphans |-> resizeTimers.orphans + (IF resizeTimers.live THEN 1 ELSE 0)]
        ELSE resizeTimers

\* return () => clearTimeout(timer), run when CoreMap leaves the screen
MapReadyCleanup ==
    mapReadyTimer' =
        IF mounted /\ ~crashed /\ ~(mounted' /\ ~crashed') /\ mapReadyTimer = "pending"
        THEN "cleared"
        ELSE mapReadyTimer

\* useMemo recomputing on [plates] alone
StatsDepsChangedPlatesOnly == plates' # plates

\* Object.is of the filteredEarthquakes of two renders: earthquakes.filter
\* returns a new array on every render, never the array of the render before
FilteredIsSameArray == FALSE

\* Whether the useMemo of [filteredEarthquakes, plates] recomputes on a render
StatsDepsChanged == ~FilteredIsSameArray \/ plates' # plates

\* React.useMemo: the stored value unless there is none or a dependency changed
UseMemo(stored, changed, fresh) == IF stored = NoPanel \/ changed THEN fresh ELSE stored

\* The render that ends every step: CoreMap computes filteredEarthquakes, and
\* the panel on screen holds its useMemo over it
Render ==
    /\ IF PanelShown'
       THEN \E es \in {filteredEarthquakes'} :
                panelStats' = UseMemo(panelStats, StatsDepsChanged, StatsOf(es)')
       ELSE panelStats' = NoPanel
    /\ panelUpdated' =
           /\ PanelShown'
           /\ \/ panelUpdated
              \/ PanelShown /\ <<earthquakes, plates>>' # <<earthquakes, plates>>

\* SetTimeRange with fetchPlates under [timeRange] too: each change of the
\* time range requests the boundaries again
SetTimeRangeRefetchingPlates(w) ==
    /\ Controls
    /\ w # timeRange
    /\ eqIssued < MaxFetches
    /\ timeRange' = w
    /\ eqIssued' = eqIssued + 1
    /\ eqInFlight' = eqInFlight \cup {[id |-> eqIssued + 1, window |-> w]}
    /\ platesIssued' = platesIssued + 1
    /\ platesInFlight' = TRUE
    /\ UNCHANGED <<earthquakes, minMagnitude, maxMagnitude, minDepth, maxDepth,
                   searchLocation, locationCoords, placeFilter, showExplanation,
                   geoInFlight, geoIssued, alerts, crashed, loadedWindow, geoLast, plates>>
    /\ UNCHANGED viewVars
    /\ Render

\* <select onChange>: setTimeRange, then the effect of [timeRange] fetches
SetTimeRange(w) ==
    /\ Controls
    /\ w # timeRange
    /\ eqIssued < MaxFetches
    /\ timeRange' = w
    /\ eqIssued' = eqIssued + 1
    /\ eqInFlight' = eqInFlight \cup {[id |-> eqIssued + 1, window |-> w]}
    /\ UNCHANGED <<earthquakes, minMagnitude, maxMagnitude, minDepth, maxDepth,
                   searchLocation, locationCoords, placeFilter, showExplanation,
                   geoInFlight, geoIssued, alerts, crashed, loadedWindow, geoLast>>
    /\ UNCHANGED plateVars
    /\ UNCHANGED viewVars
    /\ Render

\* Whether fetchEarthquakes reaches setEarthquakes with this response
EqApplies(resp) == resp.kind = "json" /\ resp.data.t = "object"

\* The rest of fetchEarthquakes, once the response is there
FetchEarthquakesDone(req, resp) ==
    /\ req \in eqInFlight
    /\ eqInFlight' = eqInFlight \ {req}
    /\ IF mounted /\ ~crashed /\ EqApplies(resp)
       THEN /\ earthquakes' = resp.data.features
            /\ loadedWindow' = req.window
            /\ crashed' = ~Renders(resp.data.features)
       ELSE UNCHANGED <<earthquakes, loadedWindow, crashed>>
    /\ UNCHANGED <<minMagnitude, maxMagnitude, minDepth, maxDepth, timeRange,
                   searchLocation, locationCoords, placeFilter, showExplanation,
                   geoInFlight, eqIssued, geoIssued, alerts, geoLast>>
    /\ UNCHANGED plateVars
    /\ UNCHANGED <<mounted, mapReady>>
    /\ MapReadyCleanup
    /\ ResponsiveMapEffect
    /\ Render

SetSearchLocation(q) ==
    /\ Controls
    /\ searchLocation' = q
    /\ UNCHANGED <<earthquakes, minMagnitude, maxMagnitude, minDepth, maxDepth, timeRange,
                   locationCoords, placeFilter, showExplanation, eqInFlight, geoInFlight,
                   eqIssued, geoIssued, alerts, crashed, loadedWindow, geoLast>>
    /\ UNCHANGED plateVars
    /\ UNCHANGED viewVars
    /\ Render

\* if (!searchLocation) return
SearchReturnsEarly(q) == Len(q) = 0

\* The Go button: handleSearch up to its fetch
HandleSearch ==
    /\ Controls
    /\ IF SearchReturnsEarly(searchLocation)
       THEN UNCHANGED <<geoInFlight, geoIssued>>
       ELSE /\ geoIssued < MaxSearches
            /\ geoIssued' = geoIssued + 1
            /\ geoInFlight' = geoInFlight \cup {[id |-> geoIssued + 1, q |-> searchLocation]}
    /\ UNCHANGED <<earthquakes, minMagnitude, maxMagnitude, minDepth, maxDepth, timeRange,
                   searchLocation, locationCoords, placeFilter, showExplanation,
                   eqInFlight, eqIssued, alerts, crashed, loadedWindow, geoLast>>
    /\ UNCHANGED plateVars
    /\ UNCHANGED viewVars
    /\ Render

\* HasCandidate without the length test: if (data)
HasCandidateAnyData(data) == Truthy(data)

\* data && data.length > 0
HasCandidate(data) == Truthy(data) /\ Len(data.items) > 0

\* const { lat, lon } = data[0] throws when there is no data[0]
HasFirst(data) == data.t = "array" /\ Len(data.items) >= 1

\* The rest of handleSearch, once the response is there
HandleSearchDone(req, resp) ==
    /\ req \in geoInFlight
    /\ geoInFlight' = geoInFlight \ {req}
    /\ geoLast' = resp
    /\ IF resp.kind # "json"
       THEN UNCHANGED <<locationCoords, alerts>>
       ELSE IF HasCandidate(resp.data)
       THEN /\ locationCoords' =
                   IF ~mounted \/ crashed \/ ~HasFirst(resp.data) THEN locationCoords
                   ELSE Arr(<<ParseFloat(resp.data.items[1].lat),
                              ParseFloat(resp.data.items[1].lon)>>)
            /\ UNCHANGED alerts
       ELSE /\ alerts' = alerts + 1
            /\ UNCHANGED locationCoords
    /\ UNCHANGED <<earthquakes, minMagnitude, maxMagnitude, minDepth, maxDepth, timeRange,
                   searchLocation, placeFilter, showExplanation, eqInFlight,
                   eqIssued, geoIssued, crashed, loadedWindow>>
    /\ UNCHANGED plateVars
    /\ UNCHANGED viewVars
    /\ Render

SetMinMagnitude(v) ==
    /\ Controls
    /\ minMagnitude' = v
    /\ UNCHANGED <<earthquakes, maxMagnitude, minDepth, maxDepth, timeRange,
                   searchLocation, locationCoords, placeFilter, showExplanation,
                   eqInFlight, geoInFlight, eqIssued, geoIssued, alerts, crashed,
                   loadedWindow, geoLast>>
    /\ UNCHANGED plateVars
    /\ UNCHANGED viewVars
    /\ Render

SetMaxMagnitude(v) ==
    /\ Controls
    /\ maxMagnitude' = v
    /\ UNCHANGED <<earthquakes, minMagnitude, minDepth, maxDepth, timeRange,
                   searchLocation, locationCoords, placeFilter, showExplanation,
                   eqInFlight, geoInFlight, eqIssued, geoIssued, alerts, crashed,
                   loadedWindow, geoLast>>
    /\ UNCHANGED plateVars
    /\ UNCHANGED viewVars
    /\ Render

SetMinDepth(v) ==
    /\ Controls
    /\ minDepth' = v
    /\ UNCHANGED <<earthquakes, minMagnitude, maxMagnitude, maxDepth, timeRange,
                   searchLocation, locationCoords, placeFilter, showExplanation,
                   eqInFlight, geoInFlight, eqIssued, geoIssued, alerts, crashed,
                   loadedWindow, geoLast>>
    /\ UNCHANGED plateVars
    /\ UNCHANGED viewVars
    /\ Render

SetMaxDepth(v) ==
    /\ Controls
    /\ maxDepth' = v
    /\ UNCHANGED <<earthquakes, minMagnitude, maxMagnitude, minDepth, timeRange,
                   searchLocation, locationCoords, placeFilter, showExplanation,
                   eqInFlight, geoInFlight, eqIssued, geoIssued, alerts, crashed,
                   loadedWindow, geoLast>>
    /\ UNCHANGED plateVars
    /\ UNCHANGED viewVars
    /\ Render

\* SetPlaceFilter with the events effect under [timeRange, placeFilter]: a
\* new keyword fetches the events again
SetPlaceFilterRefetching(k) ==
    /\ Controls
    /\ eqIssued < MaxFetches
    /\ placeFilter' = k
    /\ eqIssued' = eqIssued + 1
    /\ eqInFlight' = eqInFlight \cup {[id |-> eqIssued + 1, window |-> timeRange]}
    /\ UNCHANGED <<earthquakes, minMagnitude, maxMagnitude, minDepth, maxDepth, timeRange,
                   searchLocation, locationCoords, showExplanation,
                   geoInFlight, geoIssued, alerts, crashed, loadedWindow, geoLast>>
    /\ UNCHANGED plateVars
    /\ UNCHANGED viewVars
    /\ Render

SetPlaceFilter(k) ==
    /\ Controls
    /\ placeFilter' = k
    /\ UNCHANGED <<earthquakes, minMagnitude, maxMagnitude, minDepth, maxDepth, timeRange,
                   searchLocation, locationCoords, showExplanation,
                   eqInFlight, geoInFlight, eqIssued, geoIssued, alerts, crashed,
                   loadedWindow, geoLast>>
    /\ UNCHANGED plateVars
    /\ UNCHANGED viewVars
    /\ Render

\* The Show Explanation button
OpenExplanation ==
    /\ Controls
    /\ showExplanation' = TRUE
    /\ UNCHANGED <<earthquakes, minMagnitude, maxMagnitude, minDepth, maxDepth, timeRange,
                   searchLocation, locationCoords, placeFilter,
                   eqInFlight, geoInFlight, eqIssued, geoIssued, alerts, crashed,
                   loadedWindow, geoLast>>
    /\ UNCHANGED plateVars
    /\ UNCHANGED <<mounted, mapReady, mapReadyTimer>>
    /\ ResponsiveMapEffect
    /\ Render

\* The Close Report button, which only the report holds
CloseExplanation ==
    /\ PanelShown
    /\ Truthy(stats)
    /\ mapReady => resizeTimers.orphans < MaxTimers
    /\ showExplanation' = FALSE
    /\ UNCHANGED <<earthquakes, minMagnitude, maxMagnitude, minDepth, maxDepth, timeRange,
                   searchLocation, locationCoords, placeFilter,
                   eqInFlight, geoInFlight, eqIssued, geoIssued, alerts, crashed,
                   loadedWindow, geoLast>>
    /\ UNCHANGED plateVars
    /\ UNCHANGED <<mounted, mapReady, mapReadyTimer>>
    /\ ResponsiveMapEffect
    /\ Render

\* The segments the boundaries feed answers with in the page's runs: none, or
\* two (which may or may not draw the same kind)
PlateBodies == {<<>>, <<1, 2>>}

\* What the boundaries request can end with: fetch rejects; the body is not
\* JSON; the JSON is null, an object without features, or a collection
PlatesResponses ==
    {[kind |-> "rejected"], [kind |-> "notJson"]}
    \cup {[kind |-> "json", data |-> d] :
              d \in {Null, Obj(Undefined)} \cup {Obj(Arr(b)) : b \in PlateBodies}}

\* Whether fetchPlates reaches setPlates: data.features.map does not throw
PlatesApplies(resp) ==
    resp.kind = "json" /\ resp.data.t = "object" /\ resp.data.features.t = "array"

\* The draws of getRandomBoundaryType over the features of a response
TypeDraws(resp) ==
    IF PlatesApplies(resp)
    THEN [1..Len(resp.data.features.items) -> BoundaryTypes]
    ELSE {<<>>}

\* data.features.map(f => ({...f, properties: {..., boundaryType: draw}}))
WithBoundaryTypes(segments, types) ==
    [i \in DOMAIN segments |-> Feature(segments[i], types[i])]

\* The rest of fetchPlates, once the response is there
FetchPlatesDone(resp, types) ==
    /\ platesInFlight
    /\ platesInFlight' = FALSE
    /\ plates' = IF mounted /\ ~crashed /\ PlatesApplies(resp)
                 THEN Obj(WithBoundaryTypes(resp.data.features.items, types))
                 ELSE plates
    /\ UNCHANGED <<earthquakes, minMagnitude, maxMagnitude, minDepth, maxDepth, timeRange,
                   searchLocation, locationCoords, placeFilter, showExplanation,
                   eqInFlight, geoInFlight, eqIssued, geoIssued, alerts, crashed,
                   loadedWindow, geoLast, platesIssued>>
    /\ UNCHANGED viewVars
    /\ Render

\* The callback of setTimeout(() => setMapReady(true), 50)
MapReadyTimerFires ==
    /\ mapReadyTimer = "pending"
    /\ mapReadyTimer' = "fired"
    /\ mapReady' = TRUE
    /\ UNCHANGED <<earthquakes, minMagnitude, maxMagnitude, minDepth, maxDepth, timeRange,
                   searchLocation, locationCoords, placeFilter, showExplanation,
                   eqInFlight, geoInFlight, eqIssued, geoIssued, alerts, crashed,
                   loadedWindow, geoLast, mounted>>
    /\ UNCHANGED plateVars
    /\ ResponsiveMapEffect
    /\ Render

\* The callback of setTimeout(() => map.invalidateSize(), 100), of the map on
\* screen (orphan false) or of a map already removed (orphan true)
ResizeTimerFires(orphan) ==
    /\ IF orphan
       THEN /\ resizeTimers.orphans > 0
            /\ resizeTimers' = [resizeTimers EXCEPT !.orphans = @ - 1]
       ELSE /\ resizeTimers.live
            /\ resizeTimers' = [resizeTimers EXCEPT !.live = FALSE]
    /\ UNCHANGED <<earthquakes, minMagnitude, maxMagnitude, minDepth, maxDepth, timeRange,
                   searchLocation, locationCoords, placeFilter, showExplanation,
                   eqInFlight, geoInFlight, eqIssued, geoIssued, alerts, crashed,
                   loadedWindow, geoLast, mounted, mapReady, mapReadyTimer>>
    /\ UNCHANGED plateVars
    /\ Render

\* The route changes (the browser's Back to "/"): React unmounts CoreMap and
\* runs the cleanups of its effects
Unmount ==
    /\ mounted
    /\ ~crashed
    /\ mounted' = FALSE
    /\ UNCHANGED <<earthquakes, minMagnitude, maxMagnitude, minDepth, maxDepth, timeRange,
                   searchLocation, locationCoords, placeFilter, showExplanation,
                   eqInFlight, geoInFlight, eqIssued, geoIssued, alerts, crashed,
                   loadedWindow, geoLast, mapReady>>
    /\ UNCHANGED plateVars
    /\ MapReadyCleanup
    /\ ResponsiveMapEffect
    /\ Render

\* The responses that end fetchEarthquakes without a collection, or with none
EqFailures == {r \in EqResponses : ~EqApplies(r) \/ ~Renders(r.data.features)}

\* The page's runs, the geocoder search aside (it shares no state with the
\* rest): the time range, the fetches, the criteria, the report
Next ==
    \/ \E w \in TimeRanges : SetTimeRange(w)
    \/ \E req \in eqInFlight, resp \in EqResponses : FetchEarthquakesDone(req, resp)
    \/ \E v \in {0, 100} : SetMinMagnitude(v)
    \/ \E v \in {0, 100} : SetMaxMagnitude(v)
    \/ \E v \in {0, 700} : SetMinDepth(v)
    \/ \E v \in {0, 700} : SetMaxDepth(v)
    \/ \E k \in {<<>>, <<"y">>} : SetPlaceFilter(k)
    \/ OpenExplanation
    \/ CloseExplanation
    \/ \E resp \in PlatesResponses : \E types \in TypeDraws(resp) : FetchPlatesDone(resp, types)

Spec == Init /\ [][Next]_vars

\* The geocoder search, from the same start: the query, the Go button, the
\* responses, and the events fetch of the mount ending without a collection
SearchNext ==
    \/ \E q \in Queries : SetSearchLocation(q)
    \/ HandleSearch
    \/ \E req \in geoInFlight, resp \in GeoResponses : HandleSearchDone(req, resp)
    \/ \E req \in eqInFlight, resp \in EqFailures : FetchEarthquakesDone(req, resp)

SearchSpec == Init /\ [][SearchNext]_vars

\* The view coming and going, from the same start: the two timers, the report
\* opened and closed, the route left, the events of the mount arriving, and
\* one criterion moved
ViewNext ==
    \/ MapReadyTimerFires
    \/ \E orphan \in BOOLEAN : ResizeTimerFires(orphan)
    \/ OpenExplanation
    \/ CloseExplanation
    \/ Unmount
    \/ \E req \in eqInFlight, resp \in EqResponses : FetchEarthquakesDone(req, resp)
    \/ \E v \in {0, 100} : SetMinMagnitude(v)

ViewSpec == Init /\ [][ViewNext]_vars

\* The filter and the report as functions of their inputs: any collection
\* loaded, the criteria moved over all their positions
FilterInit ==
    /\ earthquakes \in {Arr(c) : c \in Collections}
    /\ minMagnitude = 0
    /\ maxMagnitude = 100
    /\ minDepth = 0
    /\ maxDepth = 700
    /\ timeRange = "all_day"
    /\ searchLocation = <<>>
    /\ locationCoords = Null
    /\ placeFilter = <<>>
    /\ showExplanation = FALSE
    /\ eqInFlight = {}
    /\ geoInFlight = {}
    /\ eqIssued = 1
    /\ geoIssued = 0
    /\ alerts = 0
    /\ crashed = FALSE
    /\ loadedWindow = "all_day"
    /\ geoLast = [kind |-> "none"]
    /\ plates = Null
    /\ platesInFlight = FALSE
    /\ platesIssued = 1
    /\ mounted = TRUE
    /\ mapReady = FALSE
    /\ mapReadyTimer = "pending"
    /\ resizeTimers = [live |-> FALSE, orphans |-> 0]
    /\ panelStats = NoPanel
    /\ panelUpdated = FALSE

FilterNext ==
    \/ OpenExplanation
    \/ CloseExplanation
    \/ \E v \in MagStops : SetMinMagnitude(v)
    \/ \E v \in MagStops : SetMaxMagnitude(v)
    \/ \E v \in DepthStops : SetMinDepth(v)
    \/ \E v \in DepthStops : SetMaxDepth(v)
    \/ \E k \in Keywords : SetPlaceFilter(k)

FilterSpec == FilterInit /\ [][FilterNext]_vars

-----------------------------------------------------------------------------
(* Claims *)

items == earthquakes.items

SameLetter(a, b) ==
    a = b \/ \E i \in DOMAIN UpperChars : {a, b} = {UpperChars[i], LowerChars[i]}

\* k occurs in p, letters compared without regard to case
OccursIn(k, p) ==
    \E off \in 0..(Len(p) - Len(k)) : \A n \in 1..Len(k) : SameLetter(p[off + n], k[n])

PlaceText(e) == IF e.place.t = "string" THEN e.place.s ELSE <<>>

DepthInRange(e) == minDepth <= e.depth /\ e.depth <= maxDepth

\* the magnitude is a number of the range
MagnitudeInRange(e) ==
    e.mag.t = "number" /\ minMagnitude <= e.mag.v /\ e.mag.v <= maxMagnitude

\* the same, a null magnitude read as 0
MagnitudeOrNullInRange(e) ==
    LET m == IF e.mag.t = "number" THEN e.mag.v ELSE 0
    IN minMagnitude <= m /\ m <= maxMagnitude

MatchesCriteria(e) ==
    MagnitudeInRange(e) /\ DepthInRange(e) /\ OccursIn(placeFilter, PlaceText(e))

MatchesCriteriaNullAsZero(e) ==
    MagnitudeOrNullInRange(e) /\ DepthInRange(e) /\ OccursIn(placeFilter, PlaceText(e))

\* C1: the filtered set is the subsequence, in input order, of the events
\* whose magnitude lies in [minMagnitude, maxMagnitude], whose depth lies in
\* [minDepth, maxDepth] and whose place (a missing one read as "") contains
\* the keyword without regard to case. A null magnitude lies in no range.
C1_FilteredIsMatchingSubsequence ==
    filteredEarthquakes = SelectSeq(items, MatchesCriteria)

\* What the filter computes instead: the same with a null magnitude read as 0,
\* so that an event of null magnitude is kept when 0 lies in the range.
FilterReadsNullAsZero ==
    filteredEarthquakes = SelectSeq(items, MatchesCriteriaNullAsZero)

FullRange ==
    /\ minMagnitude = 0 /\ maxMagnitude = 100
    /\ minDepth = 0 /\ maxDepth = 700
    /\ placeFilter = <<>>

\* C4: for a non-empty filtered set, total is the number of its events, every
\* event of magnitude >= 5 is counted strong and no other, every event of
\* 3 <= magnitude < 5 moderate and no other, every event of magnitude < 3
\* minor, and strong + moderate + minor = total.
C4_BandsSumToTotal ==
    Len(filteredEarthquakes) > 0 =>
        LET f == filteredEarthquakes
            numeric == {i \in DOMAIN f : f[i].mag.t = "number"}
        IN /\ stats.total = Len(f)
           /\ stats.highMagCount = Cardinality({i \in numeric : f[i].mag.v >= 50})
           /\ stats.medMagCount =
                  Cardinality({i \in numeric : f[i].mag.v >= 30 /\ f[i].mag.v < 50})
           /\ stats.lowMagCount >= Cardinality({i \in numeric : f[i].mag.v < 30})
           /\ stats.highMagCount + stats.medMagCount + stats.lowMagCount = stats.total

\* a report over one event at the lower edge of the moderate band and one strong event
C4_Witness ==
    /\ Len(filteredEarthquakes) = 2
    /\ filteredEarthquakes[1].mag = Num(30)
    /\ stats.medMagCount = 1
    /\ stats.highMagCount = 1

HasMagnitude(e) == e.mag.t = "number"

FirstOccurrence(f, key) ==
    CHOOSE i \in DOMAIN f : PlaceKey(f[i]) = key /\ \A j \in 1..(i - 1) : PlaceKey(f[j]) # key

\* C5: for a non-empty filtered set, the top locations are min(5, number of
\* distinct places) places ("Unknown" for an empty or missing one), each with
\* its number of events, in descending order of count, places of equal count
\* in the order of their first occurrence in the filtered set. (Stated for the
\* filtered sets whose events all have a magnitude.)
C5_TopLocationsRanked ==
    (Len(filteredEarthquakes) > 0 /\ \A i \in DOMAIN filteredEarthquakes :
                                        HasMagnitude(filteredEarthquakes[i])) =>
        LET f == filteredEarthquakes
            keys == {PlaceKey(f[i]) : i \in DOMAIN f}
            top == TopEntries(f)
        IN /\ Len(top) = (IF Cardinality(keys) < 5 THEN Cardinality(keys) ELSE 5)
           /\ \A i \in DOMAIN top :
                  /\ top[i].key \in keys
                  /\ top[i].count = Cardinality({j \in DOMAIN f : PlaceKey(f[j]) = top[i].key})
                  /\ stats.topLocations[i] = Label(top[i])
           /\ \A i, j \in DOMAIN top :
                  i < j =>
                      \/ top[i].count > top[j].count
                      \/ /\ top[i].count = top[j].count
                         /\ FirstOccurrence(f, top[i].key) < FirstOccurrence(f, top[j].key)

\* every event has a magnitude in [0, 10] and a depth in [0, 700]
AllWithinFullRange ==
    \A i \in DOMAIN items :
        /\ HasMagnitude(items[i])
        /\ 0 <= items[i].mag.v /\ items[i].mag.v <= 100
        /\ 0 <= items[i].depth /\ items[i].depth <= 700

\* some event has a magnitude outside [0, 10] or a depth outside [0, 700]
SomeOutsideFullRange ==
    \E i \in DOMAIN items :
        \/ HasMagnitude(items[i]) /\ (items[i].mag.v < 0 \/ items[i].mag.v > 100)
        \/ items[i].depth < 0
        \/ items[i].depth > 700

\* C6, as stated: under the full-range criteria the filtered set is the
\* collection itself, whatever the magnitudes and depths of its events.
C6_FullRangeReturnsInput ==
    FullRange => filteredEarthquakes = items

\* C6, amended: under the full-range criteria the filtered set is the
\* collection itself when every event has a magnitude in [0, 10] and a depth
\* in [0, 700], and is not when some event has a magnitude or a depth outside.
C6_FullRangeReturnsInputWithinRange ==
    FullRange =>
        /\ AllWithinFullRange => filteredEarthquakes = items
        /\ SomeOutsideFullRange => filteredEarthquakes # items

\* two events at the edges of the depth range pass unchanged
C6_Witness ==
    /\ FullRange
    /\ Len(items) = 2
    /\ AllWithinFullRange
    /\ items[1].depth = 0
    /\ items[2].depth = 700
    /\ filteredEarthquakes = items

IsFinite(x) == x.t = "number"

\* C7: the statistics are the no-data marker (null) exactly when the filtered
\* set is empty, the panel then shows the no-match message and no report, and
\* every numeric field of a report is a finite number.
C7_EmptyGivesMarker ==
    /\ (Len(filteredEarthquakes) = 0) <=> (stats = Null)
    /\ (Len(filteredEarthquakes) = 0) <=>
           (ReportView = "No earthquakes match the current filters.")
    /\ stats # Null =>
           /\ stats.total > 0
           /\ IsFinite(stats.avgMag) /\ IsFinite(stats.maxMag) /\ IsFinite(stats.minMag)
           /\ IsFinite(stats.maxDepth) /\ IsFinite(stats.minDepth)

\* the report view is open on a loaded collection whose events the criteria all exclude
C7_Witness ==
    /\ showExplanation
    /\ Len(items) > 0
    /\ Len(filteredEarthquakes) = 0
    /\ stats = Null

\* C8: an event of null magnitude contributes nothing to avgMag, minMag,
\* maxMag or the band counts: whenever the filtered set holds an event with a
\* magnitude, these are what they are over the events with a magnitude alone.
C8_NullMagnitudeExcluded ==
    LET measured == SelectSeq(filteredEarthquakes, HasMagnitude)
    IN Len(measured) > 0 =>
           /\ stats.avgMag = ReportOf(measured).avgMag
           /\ stats.minMag = ReportOf(measured).minMag
           /\ stats.maxMag = ReportOf(measured).maxMag
           /\ stats.highMagCount = ReportOf(measured).highMagCount
           /\ stats.medMagCount = ReportOf(measured).medMagCount
           /\ stats.lowMagCount = ReportOf(measured).lowMagCount

\* a fetch that failed: rejected, a non-2xx status, or a body that is not a
\* feature collection
EqFailed(resp) ==
    \/ resp.kind # "json"
    \/ ~resp.ok
    \/ resp.data.t # "object"
    \/ resp.data.features.t # "array"

\* C2: a response (here one that carries a feature collection) is applied to
\* the collection only if the window it was requested for is the selected
\* timeRange when it completes.
C2_StaleResponseDiscarded ==
    [][\A req \in eqInFlight, resp \in EqResponses :
           (FetchEarthquakesDone(req, resp) /\ ~EqFailed(resp) /\ earthquakes' # earthquakes)
               => req.window = timeRange]_vars

\* C3: a failed events fetch leaves the collection as it was, and the page
\* renders.
C3_FailureKeepsCollection ==
    [][\A req \in eqInFlight, resp \in EqResponses :
           (FetchEarthquakesDone(req, resp) /\ EqFailed(resp))
               => (earthquakes' = earthquakes /\ Renders(earthquakes') /\ ~crashed')]_vars

\* the query is empty or holds only white space
IsBlank(q) == \A i \in DOMAIN q : q[i] = " "

\* C9: a search with an empty or whitespace-only query issues no request,
\* raises no notice and leaves the recenter target alone.
C9_BlankSearchIsNoOp ==
    [][(HandleSearch /\ IsBlank(searchLocation))
           => UNCHANGED <<geoInFlight, geoIssued, alerts, locationCoords>>]_vars

ZeroCandidates(resp) == resp.kind = "json" /\ resp.data = Arr(<<>>)

\* C10: a lookup that completes with zero candidates raises a notice.
C10_NotFoundRaisesNotice ==
    [][\A req \in geoInFlight, resp \in GeoResponses :
           (HandleSearchDone(req, resp) /\ ZeroCandidates(resp))
               => alerts' = alerts + 1]_vars

\* a lookup has completed with an empty candidate list and a notice was raised
C10_Witness ==
    /\ ZeroCandidates(geoLast)
    /\ alerts >= 1

-----------------------------------------------------------------------------
(* The surfaces: the map layer and the report view *)

NoMatchesText == "No earthquakes match the current filters."

\* the collection holds events and the criteria keep none of them
FiltersExcludeAll == Len(items) > 0 /\ filteredEarthquakes = <<>>

\* C11: whenever the filters exclude every event, the surface on screen shows
\* a "no matches" message: the report view its text, the map layer a child
\* that is a message.
C11_NoMatchesOnEverySurface ==
    (mounted /\ ~crashed /\ FiltersExcludeAll)
        => /\ PanelShown => ReportView = NoMatchesText
           /\ MapShown => \E i \in DOMAIN MapChildren : MapChildren[i].kind = "message"

-----------------------------------------------------------------------------
(* The boundaries collection *)

\* C12: the boundaries feed is requested once, at mount: no step of the page
\* (a criterion moved, the time range changed, an events response arriving,
\* the report opened or closed) issues another request; and once the
\* collection is loaded, it and the kind of each of its segments stay.
C12_BoundariesRequestedOnce ==
    /\ platesIssued = 1
    /\ [][/\ platesIssued' = platesIssued
          /\ ~platesInFlight => ~platesInFlight'
          /\ Truthy(plates) => plates' = plates]_vars

\* the boundaries are loaded with segments, and since then the time range was
\* changed, an events response was applied and a criterion was moved
C12_Witness ==
    /\ Truthy(plates)
    /\ Len(plates.features) > 0
    /\ timeRange # "all_day"
    /\ loadedWindow = timeRange
    /\ minMagnitude # 0
    /\ platesIssued = 1

RECURSIVE SumCounts(_, _)
SumCounts(entries, i) ==
    IF i > Len(entries) THEN 0 ELSE entries[i].count + SumCounts(entries, i + 1)

\* the segments of the loaded collection that have this kind
SegmentsOfKind(kind) == {i \in DOMAIN plates.features : plates.features[i].boundaryType = kind}

\* the tally lists this kind with this count, once
ListsOnce(entries, kind, n) ==
    /\ \E i \in DOMAIN entries : entries[i].key = kind /\ entries[i].count = n
    /\ \A i, j \in DOMAIN entries : entries[i].key = entries[j].key => i = j

\* C13: in the report on screen, when the boundaries are loaded the tally
\* lists each kind that occurs with the number of segments of that kind in the
\* whole collection, whatever the criteria, so its counts sum to the number of
\* segments; when the boundaries are not loaded the tally is left out.
C13_TallyCountsEverySegment ==
    (PanelShown /\ Truthy(panelStats))
        => LET tally == TallyList(panelStats)
           IN IF Truthy(plates)
              THEN /\ tally.shown
                   /\ \A kind \in BoundaryTypes :
                          IF SegmentsOfKind(kind) = {}
                          THEN \A i \in DOMAIN tally.entries : tally.entries[i].key # kind
                          ELSE ListsOnce(tally.entries, kind, Cardinality(SegmentsOfKind(kind)))
                   /\ SumCounts(tally.entries, 1) = Len(plates.features)
              ELSE ~tally.shown /\ tally.entries = <<>>

\* the report is on screen over a filtered set narrowed by a criterion, and
\* the loaded boundaries hold two segments of one kind
C13_Witness ==
    /\ PanelShown
    /\ Truthy(panelStats)
    /\ Truthy(plates)
    /\ Len(plates.features) = 2
    /\ plates.features[1].boundaryType = plates.features[2].boundaryType
    /\ Len(filteredEarthquakes) < Len(items)

-----------------------------------------------------------------------------
(* The report's magnitudes *)

Abs(n) == IF n < 0 THEN 0 - n ELSE n

\* n hundredths is a nearest hundredth to the mean of magnitudes that sum to
\* sum tenths over count events
IsMeanRounded(n, sum, count) == count > 0 /\ Abs(2 * n * count - 20 * sum) <= count

\* maxMag, minMag and avgMag of the report st are the largest and the smallest
\* magnitude of the events of f, each the magnitude of some event, and their
\* mean rounded to two decimals
ExtremaAndMeanOf(st, f) ==
    LET measured == SelectSeq(f, HasMagnitude)
    IN /\ IsFinite(st.maxMag) /\ IsFinite(st.minMag) /\ IsFinite(st.avgMag)
       /\ \E i \in DOMAIN measured : measured[i].mag.v = st.maxMag.v
       /\ \E i \in DOMAIN measured : measured[i].mag.v = st.minMag.v
       /\ \A i \in DOMAIN measured :
              st.minMag.v <= measured[i].mag.v /\ measured[i].mag.v <= st.maxMag.v
       /\ IsMeanRounded(st.avgMag.v, SumFrom(Magnitudes(measured), 1), Len(measured))

\* C14: for every non-empty filtered set, maxMag and minMag are the largest
\* and smallest magnitude among its events, each attained by some event, and
\* avgMag is the mean of those magnitudes rounded to two decimals.
C14_ExtremaAndMean ==
    Len(filteredEarthquakes) > 0 => ExtremaAndMeanOf(stats, filteredEarthquakes)

\* The same, for the filtered sets whose events all have a magnitude
ExtremaAndMeanWhenMeasured ==
    (Len(filteredEarthquakes) > 0 /\ \A i \in DOMAIN filteredEarthquakes :
                                        HasMagnitude(filteredEarthquakes[i]))
        => ExtremaAndMeanOf(stats, filteredEarthquakes)

-----------------------------------------------------------------------------
(* The report on screen *)

\* C15: whenever the report view is on screen, what it holds is the aggregate
\* of the current filtered set and the current boundaries collection; an
\* events or boundaries response that arrives while it is open leaves no
\* report of the collection before.
C15_ReportIsCurrent ==
    PanelShown => panelStats = StatsOf(filteredEarthquakes)

\* a collection arrived while the report view was on screen, and the view
\* shows a report over loaded boundaries
C15_Witness ==
    /\ PanelShown
    /\ panelUpdated
    /\ Truthy(panelStats)
    /\ Truthy(plates)

-----------------------------------------------------------------------------
(* Requests *)

criteria == <<minMagnitude, maxMagnitude, minDepth, maxDepth, placeFilter>>

requests == <<eqIssued, eqInFlight, geoIssued, geoInFlight, platesIssued, platesInFlight>>

\* C16: a change of the magnitude range, the depth range or the place keyword
\* issues no request and leaves the events and the boundaries collections as
\* they are; an events request is issued at mount and on a change of the
\* time range, one request per change, and at no other step.
C16_RequestsOnlyOnTimeRange ==
    /\ eqIssued = 1
    /\ [][/\ criteria' # criteria => UNCHANGED <<requests, earthquakes, plates>>
          /\ eqIssued' # eqIssued => timeRange' # timeRange
          /\ timeRange' # timeRange
                 => /\ eqIssued' = eqIssued + 1
                    /\ \E req \in eqInFlight' \ eqInFlight :
                           /\ req.window = timeRange'
                           /\ eqInFlight' = eqInFlight \cup {req}]_vars

\* every criterion has been moved and the time range changed once: two events
\* requests in all, the one of the mount and the one of the change
C16_Witness ==
    /\ minMagnitude # 0 /\ maxMagnitude # 100
    /\ minDepth # 0 /\ maxDepth # 700
    /\ placeFilter # <<>>
    /\ timeRange # "all_day"
    /\ eqIssued = 2

-----------------------------------------------------------------------------
(* Timers *)

\* a setTimeout started by the view has neither fired nor been cleared
TimerPending ==
    \/ mapReadyTimer = "pending"
    \/ resizeTimers.live
    \/ resizeTimers.orphans > 0

\* C17: once the view is unmounted no timer it started is pending, so none
\* fires after: the initial-render timer and the map-resize timer are both
\* cancelled at unmount.
C17_NoTimerOutlivesTheView ==
    ~mounted => ~TimerPending

\* The initial-render timer alone: it never outlives the view
MapReadyTimerCleared ==
    ~mounted => mapReadyTimer # "pending"

====
